---- MODULE Spec2Model ----
(***************************************************************************)
(* Order lifecycle and inventory ledger of the CRM back-office              *)
(* (backend/app/crud.py, backend/app/models.py, backend/app/core/db.py).    *)
(*                                                                         *)
(* Spec      request handlers run one at a time, each as one transaction.   *)
(* SpecConc  two sessions run one request each, statement by statement,     *)
(*           on a READ COMMITTED datastore with row locks.                  *)
(* SpecAdjust  adjust_product_stock called directly, for its contract.      *)
(* SpecShelf  the order desk while products are renamed, repriced, deleted. *)
(* SpecDirectory  customer handlers run one at a time.                      *)
(* SpecDesk  orders created, updated and deleted one request at a time      *)
(*           while the clock runs: numbers, timestamps, totals.             *)
(*                                                                         *)
(* Identifiers are positive integers handed out by counters (the code uses  *)
(* fresh UUIDs, so an identifier is never used twice); NULL stands for a    *)
(* null foreign key or timestamp.  Money is counted in half cents: an       *)
(* amount stored in a NUMERIC(p, 2) column is an even number.  A point in   *)
(* time is a positive integer, two to the day.                              *)
(***************************************************************************)
EXTENDS Integers, Sequences, FiniteSets, TLC

VARIABLES categories, customers, products, orders, ledger,
          nextCategory, nextCustomer, nextProduct, nextOrder,
          sessions, ops, now, issued

dbvars == <<categories, customers, products, orders, ledger,
            nextCategory, nextCustomer, nextProduct, nextOrder>>
vars == <<categories, customers, products, orders, ledger,
          nextCategory, nextCustomer, nextProduct, nextOrder, sessions,
          ops, now, issued>>

(***************************************************************************)
(* Bounds of the model.                                                     *)
(***************************************************************************)
MaxCategories == 2
MaxCustomers == 2
MaxProducts == 2
MaxOrders == 1
MaxLedger == 3
MaxOps == 4
MaxAdjust == 2
MaxIssued == 2
MaxTime == 2

RECURSIVE SeqSum(_)
SeqSum(s) == IF s = <<>> THEN 0 ELSE Head(s) + SeqSum(Tail(s))

NULL == 0
UNSET == -1
UNSET_STR == "unset"
NULL_STR == "null"

Slugs == {"general", "other"}
Phones == {"+10000000000", "+1555", "+1666"}
Users == {1}
UserRefs == {NULL, 2}
CustomerRefs == {1, 2}
Quantities == {1, 2}
LineCounts == {0, 1, 2}
Prices == {2}
StockValues == {3}
AdjustmentQuantities == {-1, 0, 1}
DiscountValues == {0}
TaxValues == {0}
ShippingValues == {0}

(***************************************************************************)
(* models.py                                                                *)
(***************************************************************************)
OrderStatus == {"draft", "confirmed", "paid", "fulfilled", "cancelled"}
InventoryTransactionType == {"sale", "return", "adjustment"}

INVENTORY_DEDUCT_STATUSES == {"confirmed", "paid", "fulfilled"}

\* The products an order line may name.
LineProducts == {1, 2}

OrderItemCreate == [product_id : LineProducts, quantity : Quantities]

\* Item lists of at most two lines and two units in all.
ItemLists ==
    {l \in UNION {[1..n -> OrderItemCreate] : n \in LineCounts} :
        SeqSum([i \in DOMAIN l |-> l[i].quantity]) \in Quantities \cup {0}}

OrderCreate ==
    [customer_id : CustomerRefs, status : OrderStatus, items : ItemLists,
     assigned_to : UserRefs, discount_total : DiscountValues,
     tax_total : TaxValues, shipping_fee : ShippingValues]

OrderUpdate ==
    [status : OrderStatus \cup {UNSET_STR}, assigned_to : {UNSET},
     discount_total : {UNSET}, tax_total : {UNSET}, shipping_fee : {UNSET}]

ProductCreate ==
    [name : {"Widget"}, stock : StockValues, price : Prices,
     category_id : {NULL}]

ProductUpdate ==
    [name : {UNSET_STR}, stock : StockValues \cup {UNSET}, price : {UNSET},
     category_id : {UNSET}]

InventoryAdjustmentCreate ==
    [product_id : 1..MaxProducts, quantity : AdjustmentQuantities]

(***************************************************************************)
(* Helpers                                                                  *)
(***************************************************************************)
Restrict(f, S) == [x \in S |-> f[x]]

(***************************************************************************)
(* crud.py: inventory ledger                                                *)
(***************************************************************************)
\* Mutant: every status but draft counts as committed.
requires_deduction_unless_draft(status) == status # "draft"

\* Mutant: only the confirmed status counts as committed.
requires_deduction_when_confirmed(status) == status = "confirmed"

_requires_inventory_deduction(status) == status \in INVENTORY_DEDUCT_STATUSES

_order_has_transactions(led, order_id, tx_type) ==
    \E i \in DOMAIN led : led[i].order_id = order_id /\ led[i].type = tx_type

\* A unit of work as the session sees it: product rows, ledger rows, the
\* Product objects already loaded into the session (identity map: product
\* id -> loaded object) and the error raised, if any.
\* select(Product).with_for_update() locks and returns the row, but a
\* Product object that is already in the session keeps its loaded
\* attributes (no populate_existing), so product.stock is read from the
\* identity map when the product is there.
View(prods, led, imap) ==
    [products |-> prods, ledger |-> led, imap |-> imap, err |-> ""]

\* Mutant: the ledger row records the new stock instead of the delta.
adjust_stock_logs_total(s, product_id, delta, tx_type, order_id, allow_negative) ==
    IF product_id \notin DOMAIN s.products
    THEN [s EXCEPT !.err = "Product not found"]
    ELSE LET new_stock == s.products[product_id].stock + delta
         IN [s EXCEPT
               !.products[product_id].stock = new_stock,
               !.ledger = Append(@, [product_id |-> product_id,
                                     order_id |-> order_id,
                                     type |-> tx_type,
                                     quantity |-> new_stock])]

\* Mutant: the stock is written before the check for a negative result.
adjust_stock_checks_late(s, product_id, delta, tx_type, order_id, allow_negative) ==
    IF product_id \notin DOMAIN s.products
    THEN [s EXCEPT !.err = "Product not found"]
    ELSE LET new_stock == s.products[product_id].stock + delta
         IN IF ~allow_negative /\ new_stock < 0
            THEN [s EXCEPT !.products[product_id].stock = new_stock,
                           !.err = "Insufficient stock"]
            ELSE [s EXCEPT
                    !.products[product_id].stock = new_stock,
                    !.ledger = Append(@, [product_id |-> product_id,
                                          order_id |-> order_id,
                                          type |-> tx_type,
                                          quantity |-> delta])]

adjust_product_stock(s, product_id, delta, tx_type, order_id, allow_negative) ==
    IF product_id \notin DOMAIN s.products
    THEN [s EXCEPT !.err = "Product not found"]
    ELSE LET product == IF product_id \in DOMAIN s.imap
                        THEN s.imap[product_id]
                        ELSE s.products[product_id]
             new_stock == product.stock + delta
         IN IF ~allow_negative /\ new_stock < 0
            THEN [s EXCEPT !.err = "Insufficient stock"]
            ELSE [s EXCEPT
                    !.products[product_id].stock = new_stock,
                    !.imap = [p \in DOMAIN s.imap \cup {product_id} |->
                                IF p = product_id
                                THEN [product EXCEPT !.stock = new_stock]
                                ELSE s.imap[p]],
                    !.ledger = Append(@, [product_id |-> product_id,
                                          order_id |-> order_id,
                                          type |-> tx_type,
                                          quantity |-> delta])]

\* Mutant: a line without product reference is adjusted like any other.
adjust_item_unskipped(s, item, order_id, tx_type, sign) ==
    adjust_product_stock(s, item.product_id, sign * item.quantity,
                         tx_type, order_id, TRUE)

\* One pass of the loop over order.items in deduct/restore: lines whose
\* product reference is null are skipped.
adjust_item(s, item, order_id, tx_type, sign) ==
    IF item.product_id = NULL THEN s
    ELSE adjust_product_stock(s, item.product_id, sign * item.quantity,
                              tx_type, order_id, TRUE)

RECURSIVE adjust_items(_, _, _, _, _)
adjust_items(s, items, order_id, tx_type, sign) ==
    IF items = <<>> \/ s.err # "" THEN s
    ELSE adjust_items(adjust_item(s, Head(items), order_id, tx_type, sign),
                      Tail(items), order_id, tx_type, sign)

\* Mutant: the deduction is not guarded by the ledger lookup.
deduct_inventory_unguarded(s, order_id, order) ==
    IF order.items = <<>> THEN s
    ELSE adjust_items(s, order.items, order_id, "sale", -1)

deduct_inventory_for_order(s, order_id, order) ==
    IF order.items = <<>> THEN s
    ELSE IF _order_has_transactions(s.ledger, order_id, "sale") THEN s
    ELSE adjust_items(s, order.items, order_id, "sale", -1)

\* Mutant: the restore does not look for return rows of the order.
restore_inventory_unguarded(s, order_id, order) ==
    IF order.items = <<>> THEN s
    ELSE IF ~_order_has_transactions(s.ledger, order_id, "sale") THEN s
    ELSE adjust_items(s, order.items, order_id, "return", 1)

restore_inventory_for_order(s, order_id, order) ==
    IF order.items = <<>> THEN s
    ELSE IF ~_order_has_transactions(s.ledger, order_id, "sale") THEN s
    ELSE IF _order_has_transactions(s.ledger, order_id, "return") THEN s
    ELSE adjust_items(s, order.items, order_id, "return", 1)

(***************************************************************************)
(* crud.py: order numbers                                                   *)
(***************************************************************************)
\* str(n) of a natural number: its decimal digits.
RECURSIVE Digits(_)
Digits(n) == IF n < 10 THEN <<n>> ELSE Append(Digits(n \div 10), n % 10)

\* The format specs 04d, %Y, %m and %d: zeros on the left up to the width,
\* and every digit of a longer number.
RECURSIVE ZeroPad(_, _)
ZeroPad(digits, width) ==
    IF Len(digits) >= width THEN digits ELSE ZeroPad(<<0>> \o digits, width)

\* int(suffix)
RECURSIVE ParseInt(_)
ParseInt(digits) ==
    IF digits = <<>> THEN 0
    ELSE 10 * ParseInt(SubSeq(digits, 1, Len(digits) - 1))
         + digits[Len(digits)]

\* The order of the datastore on two strings of digits (ORDER BY on a
\* character column): by the first position where they differ, a proper
\* prefix first.
RECURSIVE StrLess(_, _)
StrLess(a, b) ==
    IF b = <<>> THEN FALSE
    ELSE IF a = <<>> THEN TRUE
    ELSE IF Head(a) # Head(b) THEN Head(a) < Head(b)
    ELSE StrLess(Tail(a), Tail(b))

\* datetime.now(timezone.utc) at the instant t.
utc_now(t) == [year |-> 2026, month |-> 11, day |-> (t + 1) \div 2]

\* The digits of dt.strftime("ORD%Y%m%d").
strftime(dt) ==
    ZeroPad(Digits(dt.year), 4) \o ZeroPad(Digits(dt.month), 2)
        \o ZeroPad(Digits(dt.day), 2)

\* An order number ORD<prefix>-<suffix> is kept as its two strings of
\* digits.  ords are the order rows the session reads.
_generate_order_number(ords, dt) ==
    LET prefix == strftime(dt)
        matching == {ords[o].order_number.suffix :
                        o \in {x \in DOMAIN ords :
                                 ords[x].order_number.prefix = prefix}}
        last_number == CHOOSE n \in matching :
                            \A m \in matching : ~StrLess(n, m)
        counter == IF matching = {} THEN 1 ELSE ParseInt(last_number) + 1
    IN [prefix |-> prefix, suffix |-> ZeroPad(Digits(counter), 4)]

(***************************************************************************)
(* crud.py: order pricing                                                   *)
(***************************************************************************)
\* A value written to a NUMERIC(p, 2) column: rounded to the cent, half
\* away from zero.
numeric_2(x) == IF x % 2 = 0 THEN x ELSE IF x > 0 THEN x + 1 ELSE x - 1

\* OrderItem built in the loop of create_order: a snapshot of the product.
order_item(product_id, product, quantity) ==
    [product_id |-> product_id, quantity |-> quantity,
     product_name |-> product.name,
     unit_price |-> product.price,
     total_price |-> product.price * quantity]

items_subtotal(items) ==
    SeqSum([i \in DOMAIN items |-> items[i].total_price])

compute_grand_total(subtotal, discount_total, tax_total, shipping_fee) ==
    subtotal - discount_total + tax_total + shipping_fee

\* The Order object create_order constructs and adds to the session; of
\* its timestamps the four of the lifecycle are kept, all unset.
new_order(order_in, items, order_number) ==
    [customer_id |-> order_in.customer_id,
     status |-> order_in.status,
     discount_total |-> order_in.discount_total,
     tax_total |-> order_in.tax_total,
     shipping_fee |-> order_in.shipping_fee,
     subtotal |-> items_subtotal(items),
     grand_total |-> compute_grand_total(items_subtotal(items),
                        order_in.discount_total, order_in.tax_total,
                        order_in.shipping_fee),
     order_number |-> order_number,
     confirmed_at |-> NULL, paid_at |-> NULL, fulfilled_at |-> NULL,
     cancelled_at |-> NULL,
     items |-> items]

\* The sales_order and sales_order_item rows as the datastore keeps them.
stored_order(order) ==
    [order EXCEPT
       !.discount_total = numeric_2(@),
       !.tax_total = numeric_2(@),
       !.shipping_fee = numeric_2(@),
       !.subtotal = numeric_2(@),
       !.grand_total = numeric_2(@),
       !.items = [i \in DOMAIN order.items |->
                    [order.items[i] EXCEPT !.unit_price = numeric_2(@),
                                           !.total_price = numeric_2(@)]]]

STATUS_TIMESTAMP_MAP ==
    [confirmed |-> "confirmed_at", paid |-> "paid_at",
     fulfilled |-> "fulfilled_at", cancelled |-> "cancelled_at"]

\* setattr(db_order, timestamp_field, now) when update_data has a status
\* with a timestamp column.
stamped(order, status, t) ==
    IF status \in DOMAIN STATUS_TIMESTAMP_MAP
    THEN [order EXCEPT ![STATUS_TIMESTAMP_MAP[status]] = t]
    ELSE order

\* Mutant: the subtotal is taken from the current prices of the products.
updated_order_repriced(db_order, order_in, t) ==
    LET Pick(field, old) == IF field = UNSET THEN old ELSE field
        current(item) == IF item.product_id \in DOMAIN products
                         THEN products[item.product_id].price * item.quantity
                         ELSE item.total_price
    IN [stamped(db_order, order_in.status, t) EXCEPT
          !.status = IF order_in.status = UNSET_STR THEN @ ELSE order_in.status,
          !.discount_total = Pick(order_in.discount_total, @),
          !.tax_total = Pick(order_in.tax_total, @),
          !.shipping_fee = Pick(order_in.shipping_fee, @),
          !.grand_total =
              compute_grand_total(
                  SeqSum([i \in DOMAIN db_order.items |->
                              current(db_order.items[i])]),
                  Pick(order_in.discount_total, db_order.discount_total),
                  Pick(order_in.tax_total, db_order.tax_total),
                  Pick(order_in.shipping_fee, db_order.shipping_fee))]

\* db_order after sqlmodel_update(update_data) and the recomputation of
\* grand_total from the persisted line items.
updated_order(db_order, order_in, t) ==
    LET Pick(field, old) == IF field = UNSET THEN old ELSE field
        discount_total == Pick(order_in.discount_total, db_order.discount_total)
        tax_total == Pick(order_in.tax_total, db_order.tax_total)
        shipping_fee == Pick(order_in.shipping_fee, db_order.shipping_fee)
    IN [stamped(db_order, order_in.status, t) EXCEPT
          !.status = IF order_in.status = UNSET_STR THEN @ ELSE order_in.status,
          !.discount_total = discount_total,
          !.tax_total = tax_total,
          !.shipping_fee = shipping_fee,
          !.grand_total = compute_grand_total(items_subtotal(db_order.items),
                              discount_total, tax_total, shipping_fee)]

\* update_data = order_in.model_dump(exclude_unset=True) is empty
order_update_is_empty(order_in) ==
    /\ order_in.status = UNSET_STR
    /\ order_in.assigned_to = UNSET
    /\ order_in.discount_total = UNSET
    /\ order_in.tax_total = UNSET
    /\ order_in.shipping_fee = UNSET

product_update_is_empty(product_in) ==
    /\ product_in.name = UNSET_STR
    /\ product_in.stock = UNSET
    /\ product_in.price = UNSET
    /\ product_in.category_id = UNSET

(***************************************************************************)
(* Datastore: foreign keys                                                  *)
(***************************************************************************)
\* ON DELETE SET NULL of sales_order_item.product_id
orders_without_products(ords, gone) ==
    [o \in DOMAIN ords |->
        [ords[o] EXCEPT !.items =
            [i \in DOMAIN ords[o].items |->
                IF ords[o].items[i].product_id \in gone
                THEN [ords[o].items[i] EXCEPT !.product_id = NULL]
                ELSE ords[o].items[i]]]]

\* ON DELETE CASCADE of inventory_transaction.product_id
ledger_without_products(led, gone) ==
    SelectSeq(led, LAMBDA e : e.product_id \notin gone)

\* ON DELETE SET NULL of inventory_transaction.order_id
ledger_without_order(led, order_id) ==
    [i \in DOMAIN led |->
        IF led[i].order_id = order_id
        THEN [led[i] EXCEPT !.order_id = NULL] ELSE led[i]]

(***************************************************************************)
(* State after init_db (core/db.py): one category, one product with no     *)
(* stock and price 0, one customer; no order, empty ledger.                 *)
(***************************************************************************)
Txs == {1, 2}

\* A database session before its request: op and arg are the request,
\* loaded the Order row as read by get_order, order the Order object in
\* memory, items the OrderItem list under construction, todo the lines the
\* running loop has still to visit, imap the Product objects in the
\* identity map, w_products, w_ledger and w_order the flushed, uncommitted
\* writes, locks the row locks held until commit or rollback, order_number
\* the number create_order has generated.
IdleSession ==
    [pc |-> "idle", op |-> "", arg |-> <<>>, order_id |-> NULL,
     loaded |-> <<>>, order |-> <<>>, items |-> <<>>, todo |-> <<>>,
     tx_type |-> "", sign |-> 0, imap |-> <<>>, w_products |-> <<>>,
     w_ledger |-> <<>>, w_order |-> "", locks |-> {}, err |-> "",
     order_number |-> <<>>]

Init ==
    /\ categories = [c \in {1} |-> [slug |-> "general"]]
    /\ customers = [c \in {1} |-> [phone |-> "+10000000000"]]
    /\ products = [p \in {1} |-> [name |-> "Sample Product", stock |-> 0,
                                  price |-> 0, category_id |-> 1]]
    /\ orders = [o \in {} |-> 0]
    /\ ledger = <<>>
    /\ nextCategory = 2
    /\ nextCustomer = 2
    /\ nextProduct = 2
    /\ nextOrder = 1
    /\ sessions = [t \in Txs |-> IdleSession]
    /\ ops = 0
    /\ now = 1
    /\ issued = <<>>

(***************************************************************************)
(* Request handlers, one transaction each                                   *)
(***************************************************************************)
create_category(slug) ==
    /\ nextCategory <= MaxCategories
    /\ \A c \in DOMAIN categories : categories[c].slug # slug
    /\ categories' = (nextCategory :> [slug |-> slug]) @@ categories
    /\ nextCategory' = nextCategory + 1
    /\ UNCHANGED <<customers, products, orders, ledger, nextCustomer,
                   nextProduct, nextOrder, sessions,
                   now, issued>>

update_category(category_id, slug) ==
    /\ category_id \in DOMAIN categories
    /\ slug # categories[category_id].slug
    /\ \A c \in DOMAIN categories : categories[c].slug # slug
    /\ categories' = [categories EXCEPT ![category_id].slug = slug]
    /\ UNCHANGED <<customers, products, orders, ledger, nextCategory,
                   nextCustomer, nextProduct, nextOrder, sessions,
                   now, issued>>

\* Category.products has cascade_delete: the products of the category are
\* deleted with it.
delete_category(category_id) ==
    /\ category_id \in DOMAIN categories
    /\ LET gone == {p \in DOMAIN products :
                        products[p].category_id = category_id}
       IN /\ categories' = Restrict(categories, DOMAIN categories \ {category_id})
          /\ products' = Restrict(products, DOMAIN products \ gone)
          /\ orders' = orders_without_products(orders, gone)
          /\ ledger' = ledger_without_products(ledger, gone)
    /\ UNCHANGED <<customers, nextCategory, nextCustomer, nextProduct,
                   nextOrder, sessions,
                   now, issued>>

\* Mutant: the lookup by phone finds no customer.
get_customer_by_phone_none(custs, phone) == {}

\* select(Customer).where(Customer.phone == phone), first(): the customers
\* with that phone, of which the caller only asks whether there is one.
get_customer_by_phone(custs, phone) ==
    {c \in DOMAIN custs : custs[c].phone = phone}

\* What a request has answered: the handler, its input and the error it
\* has raised, "" when it has answered normally.
Answer(op, arg, err) ==
    [IdleSession EXCEPT !.pc = "done", !.op = op, !.arg = arg, !.err = err]

create_customer(phone) ==
    /\ IF get_customer_by_phone(customers, phone) # {}
       THEN /\ sessions' = [sessions EXCEPT ![1] =
                    Answer("create_customer", <<phone>>,
                           "Phone number already registered")]
            /\ UNCHANGED <<customers, nextCustomer>>
       ELSE /\ nextCustomer <= MaxCustomers
            /\ customers' = (nextCustomer :> [phone |-> phone]) @@ customers
            /\ nextCustomer' = nextCustomer + 1
            /\ sessions' = [sessions EXCEPT ![1] =
                    Answer("create_customer", <<phone>>, "")]
    /\ UNCHANGED <<categories, products, orders, ledger, nextCategory,
                   nextProduct, nextOrder, now, issued>>

\* phone is the phone of update_data, UNSET_STR when update_data has none
\* and NULL_STR when it is null: the column is NOT NULL.
update_customer(customer_id, phone) ==
    /\ LET answer(err) == Answer("update_customer", <<customer_id, phone>>, err)
       IN IF customer_id \notin DOMAIN customers
          THEN /\ sessions' = [sessions EXCEPT ![1] = answer("Customer not found")]
               /\ UNCHANGED customers
          ELSE IF phone = UNSET_STR
          THEN /\ sessions' = [sessions EXCEPT ![1] = answer("")]
               /\ UNCHANGED customers
          ELSE IF /\ phone # customers[customer_id].phone
                  /\ get_customer_by_phone(customers, phone) # {}
          THEN /\ sessions' = [sessions EXCEPT ![1] =
                       answer("Phone number already registered")]
               /\ UNCHANGED customers
          ELSE IF phone = NULL_STR
          THEN /\ sessions' = [sessions EXCEPT ![1] = answer("IntegrityError")]
               /\ UNCHANGED customers
          ELSE /\ customers' = [customers EXCEPT ![customer_id].phone = phone]
               /\ sessions' = [sessions EXCEPT ![1] = answer("")]
    /\ UNCHANGED <<categories, products, orders, ledger, nextCategory,
                   nextCustomer, nextProduct, nextOrder, now, issued>>

\* sales_order.customer_id has no ON DELETE rule: the delete fails while an
\* order references the customer.
delete_customer(customer_id) ==
    /\ LET answer(err) == Answer("delete_customer", <<customer_id>>, err)
       IN IF customer_id \notin DOMAIN customers
          THEN /\ sessions' = [sessions EXCEPT ![1] = answer("Customer not found")]
               /\ UNCHANGED customers
          ELSE IF \E o \in DOMAIN orders : orders[o].customer_id = customer_id
          THEN /\ sessions' = [sessions EXCEPT ![1] = answer("IntegrityError")]
               /\ UNCHANGED customers
          ELSE /\ customers' = Restrict(customers,
                                        DOMAIN customers \ {customer_id})
               /\ sessions' = [sessions EXCEPT ![1] = answer("")]
    /\ UNCHANGED <<categories, products, orders, ledger, nextCategory,
                   nextCustomer, nextProduct, nextOrder, now, issued>>

\* The SKU of product_in is taken to be unused.
create_product(product_in) ==
    /\ nextProduct <= MaxProducts
    /\ product_in.category_id # NULL =>
            product_in.category_id \in DOMAIN categories
    /\ products' = (nextProduct :> [name |-> product_in.name,
                                    stock |-> product_in.stock,
                                    price |-> product_in.price,
                                    category_id |-> product_in.category_id])
                   @@ products
    /\ nextProduct' = nextProduct + 1
    /\ UNCHANGED <<categories, customers, orders, ledger, nextCategory,
                   nextCustomer, nextOrder, sessions,
                   now, issued>>

\* db_product after sqlmodel_update(update_data): every supplied field,
\* stock included, is written to the row.
updated_product(db_product, product_in) ==
    [name |-> IF product_in.name = UNSET_STR
              THEN db_product.name ELSE product_in.name,
     stock |-> IF product_in.stock = UNSET
               THEN db_product.stock ELSE product_in.stock,
     price |-> IF product_in.price = UNSET
               THEN db_product.price ELSE product_in.price,
     category_id |-> IF product_in.category_id = UNSET
                     THEN db_product.category_id ELSE product_in.category_id]

update_product(product_id, product_in) ==
    /\ product_id \in DOMAIN products
    /\ ~product_update_is_empty(product_in)
    /\ product_in.category_id \notin {UNSET, NULL} =>
            product_in.category_id \in DOMAIN categories
    /\ products' = [products EXCEPT
                      ![product_id] = updated_product(@, product_in)]
    /\ UNCHANGED <<categories, customers, orders, ledger, nextCategory,
                   nextCustomer, nextProduct, nextOrder, sessions,
                   now, issued>>

delete_product(product_id) ==
    /\ product_id \in DOMAIN products
    /\ products' = Restrict(products, DOMAIN products \ {product_id})
    /\ orders' = orders_without_products(orders, {product_id})
    /\ ledger' = ledger_without_products(ledger, {product_id})
    /\ UNCHANGED <<categories, customers, nextCategory, nextCustomer,
                   nextProduct, nextOrder, sessions,
                   now, issued>>

create_inventory_adjustment(adjustment_in) ==
    /\ adjustment_in.quantity # 0
    /\ Len(ledger) < MaxLedger
    /\ LET s == adjust_product_stock(View(products, ledger, <<>>),
                    adjustment_in.product_id, adjustment_in.quantity,
                    "adjustment", NULL, TRUE)
       IN /\ s.err = ""
          /\ products' = s.products
          /\ ledger' = s.ledger
    /\ UNCHANGED <<categories, customers, orders, nextCategory,
                   nextCustomer, nextProduct, nextOrder, sessions,
                   now, issued>>

\* The unique index on order_number rejects the INSERT of a number that
\* an order row already has.
create_order(order_in) ==
    /\ order_in.customer_id \in DOMAIN customers
    /\ order_in.items # <<>>
    /\ \A i \in DOMAIN order_in.items :
            order_in.items[i].product_id \in DOMAIN products
    /\ LET items == [i \in DOMAIN order_in.items |->
                        order_item(order_in.items[i].product_id,
                                   products[order_in.items[i].product_id],
                                   order_in.items[i].quantity)]
           order_number == _generate_order_number(orders, utc_now(now))
           order == new_order(order_in, items, order_number)
           loaded == {order_in.items[i].product_id : i \in DOMAIN order_in.items}
           s0 == View(products, ledger, [p \in loaded |-> products[p]])
           s == IF _requires_inventory_deduction(order.status)
                THEN deduct_inventory_for_order(s0, nextOrder, order)
                ELSE s0
       IN /\ order.grand_total >= 0
          /\ order_in.assigned_to # NULL => order_in.assigned_to \in Users
          /\ \A o \in DOMAIN orders : orders[o].order_number # order_number
          /\ s.err = ""
          /\ orders' = (nextOrder :> stored_order(order)) @@ orders
          /\ products' = s.products
          /\ ledger' = s.ledger
          /\ issued' = Append(issued, order_number)
    /\ nextOrder' = nextOrder + 1
    /\ UNCHANGED <<categories, customers, nextCategory, nextCustomer,
                   nextProduct, sessions, now>>

update_order(order_id, order_in) ==
    /\ order_id \in DOMAIN orders
    /\ ~order_update_is_empty(order_in)
    /\ order_in.assigned_to \notin {UNSET, NULL} => order_in.assigned_to \in Users
    /\ LET previous_status == orders[order_id].status
           order == updated_order(orders[order_id], order_in, now)
           needs_before == _requires_inventory_deduction(previous_status)
           needs_after == _requires_inventory_deduction(order.status)
           s0 == View(products, ledger, <<>>)
           s == IF ~needs_before /\ needs_after
                THEN deduct_inventory_for_order(s0, order_id, order)
                ELSE IF needs_before /\ ~needs_after
                THEN restore_inventory_for_order(s0, order_id, order)
                ELSE s0
       IN /\ order.grand_total >= 0
          /\ s.err = ""
          /\ orders' = [orders EXCEPT ![order_id] = stored_order(order)]
          /\ products' = s.products
          /\ ledger' = s.ledger
    /\ UNCHANGED <<categories, customers, nextCategory, nextCustomer,
                   nextProduct, nextOrder, sessions,
                   now, issued>>

\* Mutant: the order is deleted without the restore.
delete_order_without_restore(order_id) ==
    /\ order_id \in DOMAIN orders
    /\ orders' = Restrict(orders, DOMAIN orders \ {order_id})
    /\ ledger' = ledger_without_order(ledger, order_id)
    /\ UNCHANGED <<categories, customers, products, nextCategory,
                   nextCustomer, nextProduct, nextOrder, sessions,
                   now, issued>>

delete_order(order_id) ==
    /\ order_id \in DOMAIN orders
    /\ LET s == restore_inventory_for_order(View(products, ledger, <<>>),
                                            order_id, orders[order_id])
       IN /\ s.err = ""
          /\ orders' = Restrict(orders, DOMAIN orders \ {order_id})
          /\ products' = s.products
          /\ ledger' = ledger_without_order(s.ledger, order_id)
    /\ UNCHANGED <<categories, customers, nextCategory, nextCustomer,
                   nextProduct, nextOrder, sessions,
                   now, issued>>

NextCatalog ==
    \/ \E slug \in Slugs : create_category(slug)
    \/ \E c \in 1..MaxCategories, slug \in Slugs : update_category(c, slug)
    \/ \E c \in 1..MaxCategories : delete_category(c)
    \/ \E phone \in Phones : create_customer(phone)
    \/ \E c \in 1..MaxCustomers, phone \in Phones \cup {UNSET_STR, NULL_STR} :
            update_customer(c, phone)
    \/ \E c \in 1..MaxCustomers : delete_customer(c)

\* One request: the handlers are bounded by the number of requests served.
Request(handler) == ops < MaxOps /\ ops' = ops + 1 /\ handler

Next ==
    \/ \E product_in \in ProductCreate : Request(create_product(product_in))
    \/ \E p \in 1..MaxProducts, product_in \in ProductUpdate :
            Request(update_product(p, product_in))
    \/ \E p \in 1..MaxProducts : Request(delete_product(p))
    \/ \E adjustment_in \in InventoryAdjustmentCreate :
            Request(create_inventory_adjustment(adjustment_in))
    \/ /\ nextOrder <= MaxOrders
       /\ \E order_in \in OrderCreate : Request(create_order(order_in))
    \/ \E o \in 1..MaxOrders, order_in \in OrderUpdate :
            Request(update_order(o, order_in))
    \/ \E o \in 1..MaxOrders : Request(delete_order(o))

Spec == Init /\ [][Next]_vars

TypeOK ==
    /\ \A p \in DOMAIN products : products[p].stock \in Int
    /\ \A i \in DOMAIN ledger : ledger[i].type \in InventoryTransactionType

(***************************************************************************)
(* Two requests at a time, statement by statement. Each session runs one   *)
(* request in one transaction (READ COMMITTED): a statement reads the rows *)
(* committed so far and the session's own writes; UPDATE, DELETE and       *)
(* SELECT ... FOR UPDATE wait for the row lock and hold it to the end of   *)
(* the transaction.                                                         *)
(***************************************************************************)
ConcLine(product_id) == [product_id |-> product_id, quantity |-> 1]

ConcItemLists ==
    {<<ConcLine(1)>>, <<ConcLine(1), ConcLine(2)>>, <<ConcLine(2), ConcLine(1)>>}

ConcOrderCreate ==
    [customer_id : {1}, status : {"draft", "confirmed"}, items : ConcItemLists,
     assigned_to : {NULL}, discount_total : DiscountValues,
     tax_total : TaxValues, shipping_fee : ShippingValues]

\* Requests create_order refuses: a customer, a product or an assignee
\* that does not exist, no line, a discount above the subtotal.
ConcOrderCreateInvalid ==
    LET order_in == [customer_id |-> 1, status |-> "confirmed",
                     items |-> <<ConcLine(2), ConcLine(1)>>,
                     assigned_to |-> NULL, discount_total |-> 0,
                     tax_total |-> 0, shipping_fee |-> 0]
    IN {[order_in EXCEPT !.customer_id = 2],
        [order_in EXCEPT !.items = <<>>],
        [order_in EXCEPT !.items = <<ConcLine(2), ConcLine(3)>>],
        [order_in EXCEPT !.assigned_to = 2],
        [order_in EXCEPT !.discount_total = 4]}

ConcOrderUpdate ==
    [status : {"confirmed", "paid", "cancelled"}, assigned_to : {UNSET},
     discount_total : {UNSET}, tax_total : {UNSET}, shipping_fee : {UNSET}]

\* The catalogue before the two requests: the seeded product and one more.
ConcProducts ==
    <<[name |-> "Sample Product", stock |-> 0, price |-> 0, category_id |-> 1],
      [name |-> "Widget", stock |-> 3, price |-> 2, category_id |-> NULL]>>

\* The order before the two requests, one unit of each product.
ConcOrder(status) ==
    new_order([customer_id |-> 1, status |-> status, discount_total |-> 0,
               tax_total |-> 0, shipping_fee |-> 0],
              <<order_item(1, ConcProducts[1], 1),
                order_item(2, ConcProducts[2], 1)>>,
              _generate_order_number(<<>>, utc_now(1)))

\* create_product, then create_order as draft or as confirmed.
InitConc ==
    /\ categories = [c \in {1} |-> [slug |-> "general"]]
    /\ customers = [c \in {1} |-> [phone |-> "+10000000000"]]
    /\ \E status \in {"draft", "confirmed"} :
          LET order == ConcOrder(status)
              s == IF _requires_inventory_deduction(status)
                   THEN deduct_inventory_for_order(
                            View(ConcProducts, <<>>, <<>>), 1, order)
                   ELSE View(ConcProducts, <<>>, <<>>)
          IN /\ orders = [o \in {1} |-> order]
             /\ products = s.products
             /\ ledger = s.ledger
    /\ nextCategory = 2
    /\ nextCustomer = 2
    /\ nextProduct = 3
    /\ nextOrder = 2
    /\ sessions = [t \in Txs |-> IdleSession]
    /\ ops = 0
    /\ now = 1
    /\ issued = <<ConcOrder("draft").order_number>>

ProductLock(product_id) == <<"product", product_id>>
OrderLock(order_id) == <<"sales_order", order_id>>
\* The entry of the unique index on sales_order.order_number.
NumberLock(order_number) == <<"order_number", order_number>>

HeldByOther(t, lock) == \E u \in Txs \ {t} : lock \in sessions[u].locks

\* What the statements of a session read: committed rows under the session's
\* own flushed writes, and its identity map.
session_view(sess) ==
    [products |-> [p \in DOMAIN products |->
                     IF p \in DOMAIN sess.w_products
                     THEN [products[p] EXCEPT !.stock = sess.w_products[p]]
                     ELSE products[p]],
     ledger |-> ledger \o sess.w_ledger,
     imap |-> sess.imap,
     err |-> ""]

\* Mutant: the work done before the failure is committed.
commit_on_failure(sess, err) == [sess EXCEPT !.pc = "commit", !.err = err]

\* The request fails: the transaction is rolled back with the session.
rollback(sess, err) ==
    [sess EXCEPT !.pc = "done", !.err = err, !.w_products = <<>>,
                 !.w_ledger = <<>>, !.w_order = "", !.locks = {}]

\* Where a request goes on after its inventory work.
after_inventory(sess) == IF sess.op = "delete_order" THEN "delete" ELSE "commit"

\* UPDATE sales_order SET <changed columns>: the columns whose value in the
\* session differs from the value it loaded.
flushed_order(row, loaded, order) ==
    [f \in DOMAIN row |->
        IF order[f] # loaded[f] THEN stored_order(order)[f] ELSE row[f]]

begin_create_order(t, order_in) ==
    /\ sessions[t].pc = "idle"
    /\ LET sess == [sessions[t] EXCEPT !.op = "create_order", !.arg = order_in]
       IN sessions' = [sessions EXCEPT ![t] =
            IF order_in.customer_id \notin DOMAIN customers
            THEN rollback(sess, "Customer not found")
            ELSE IF order_in.items = <<>>
            THEN rollback(sess, "Order items required")
            ELSE [sess EXCEPT
                    !.pc = "load", !.todo = order_in.items,
                    !.order_number =
                        _generate_order_number(orders, utc_now(now))]]
    /\ UNCHANGED <<dbvars, ops, now, issued>>

\* One pass of the loop over order_in.items: get_product and the OrderItem.
load_product(t) ==
    /\ sessions[t].pc = "load"
    /\ LET sess == sessions[t]
           item == Head(sess.todo)
           product_id == item.product_id
           product == IF product_id \in DOMAIN sess.imap
                      THEN sess.imap[product_id] ELSE products[product_id]
       IN sessions' = [sessions EXCEPT ![t] =
            IF product_id \notin DOMAIN products
            THEN rollback(sess, "Product not found")
            ELSE [sess EXCEPT
                    !.imap = (product_id :> product) @@ @,
                    !.items = Append(@, order_item(product_id, product,
                                                   item.quantity)),
                    !.todo = Tail(@),
                    !.pc = IF Tail(sess.todo) = <<>> THEN "insert" ELSE "load"]]
    /\ UNCHANGED <<dbvars, ops, now, issued>>

\* Mutant: sales_order.order_number has no unique index.
insert_order_without_unique(t) ==
    /\ sessions[t].pc = "insert"
    /\ LET sess == sessions[t]
           order == new_order(sess.arg, sess.items, sess.order_number)
       IN IF order.grand_total < 0
          THEN /\ sessions' = [sessions EXCEPT ![t] =
                    rollback(sess, "Grand total cannot be negative")]
               /\ UNCHANGED nextOrder
          ELSE IF sess.arg.assigned_to # NULL /\ sess.arg.assigned_to \notin Users
          THEN /\ sessions' = [sessions EXCEPT ![t] =
                    rollback(sess, "Assigned user not found")]
               /\ UNCHANGED nextOrder
          ELSE /\ sessions' = [sessions EXCEPT ![t] =
                    [sess EXCEPT
                       !.order = order, !.order_id = nextOrder,
                       !.w_order = "insert",
                       !.pc = IF _requires_inventory_deduction(order.status)
                              THEN "deduct" ELSE "commit"]]
               /\ nextOrder' = nextOrder + 1
    /\ UNCHANGED <<categories, customers, products, orders, ledger,
                   nextCategory, nextCustomer, nextProduct, ops,
                   now, issued>>

\* Totals, assignee, session.add(order) and session.flush(). The INSERT
\* waits while another transaction holds the same order_number in the
\* unique index, and fails when a committed order row has it.
insert_order(t) ==
    /\ sessions[t].pc = "insert"
    /\ LET sess == sessions[t]
           order == new_order(sess.arg, sess.items, sess.order_number)
           invalid == \/ order.grand_total < 0
                      \/ /\ sess.arg.assigned_to # NULL
                         /\ sess.arg.assigned_to \notin Users
       IN /\ invalid \/ ~HeldByOther(t, NumberLock(sess.order_number))
          /\ IF order.grand_total < 0
             THEN /\ sessions' = [sessions EXCEPT ![t] =
                       rollback(sess, "Grand total cannot be negative")]
                  /\ UNCHANGED nextOrder
             ELSE IF /\ sess.arg.assigned_to # NULL
                     /\ sess.arg.assigned_to \notin Users
             THEN /\ sessions' = [sessions EXCEPT ![t] =
                       rollback(sess, "Assigned user not found")]
                  /\ UNCHANGED nextOrder
             ELSE IF \E o \in DOMAIN orders :
                        orders[o].order_number = sess.order_number
             THEN /\ sessions' = [sessions EXCEPT ![t] =
                       rollback(sess, "IntegrityError")]
                  /\ UNCHANGED nextOrder
             ELSE /\ sessions' = [sessions EXCEPT ![t] =
                       [sess EXCEPT
                          !.order = order, !.order_id = nextOrder,
                          !.w_order = "insert",
                          !.locks = @ \cup {NumberLock(sess.order_number)},
                          !.pc = IF _requires_inventory_deduction(order.status)
                                 THEN "deduct" ELSE "commit"]]
                  /\ nextOrder' = nextOrder + 1
    /\ UNCHANGED <<categories, customers, products, orders, ledger,
                   nextCategory, nextCustomer, nextProduct, ops,
                   now, issued>>

\* The route's get_order, then update_order up to the first flush.
begin_update_order(t, order_id, order_in) ==
    /\ sessions[t].pc = "idle"
    /\ LET sess == [sessions[t] EXCEPT !.op = "update_order", !.arg = order_in,
                                       !.order_id = order_id]
       IN sessions' = [sessions EXCEPT ![t] =
            IF order_id \notin DOMAIN orders
            THEN rollback(sess, "Order not found")
            ELSE IF order_update_is_empty(order_in)
            THEN [sess EXCEPT !.pc = "done", !.loaded = orders[order_id],
                              !.order = orders[order_id]]
            ELSE IF order_in.assigned_to \notin {UNSET, NULL}
                    /\ order_in.assigned_to \notin Users
            THEN rollback(sess, "Assigned user not found")
            ELSE [sess EXCEPT !.pc = "flush", !.loaded = orders[order_id],
                              !.order = updated_order(orders[order_id],
                                                      order_in, now)]]
    /\ UNCHANGED <<dbvars, ops, now, issued>>

\* Mutant: the UPDATE of the order row takes no row lock.
flush_order_unlocked(t) ==
    /\ sessions[t].pc = "flush"
    /\ LET sess == sessions[t]
           needs_before == _requires_inventory_deduction(sess.loaded.status)
           needs_after == _requires_inventory_deduction(sess.order.status)
       IN sessions' = [sessions EXCEPT ![t] =
            [sess EXCEPT
               !.w_order = "update",
               !.pc = IF ~needs_before /\ needs_after THEN "deduct"
                      ELSE IF needs_before /\ ~needs_after THEN "restore"
                      ELSE "commit"]]
    /\ UNCHANGED <<dbvars, ops, now, issued>>

\* The UPDATE of the order row (autoflush before db_order.items is loaded),
\* the grand_total check and the choice of the inventory transition.
flush_order(t) ==
    /\ sessions[t].pc = "flush"
    /\ ~HeldByOther(t, OrderLock(sessions[t].order_id))
    /\ LET sess == sessions[t]
           needs_before == _requires_inventory_deduction(sess.loaded.status)
           needs_after == _requires_inventory_deduction(sess.order.status)
       IN sessions' = [sessions EXCEPT ![t] =
            IF sess.order_id \notin DOMAIN orders
            THEN rollback(sess, "StaleDataError")
            ELSE IF sess.order.grand_total < 0
            THEN rollback(sess, "Grand total cannot be negative")
            ELSE [sess EXCEPT
                    !.locks = @ \cup {OrderLock(sess.order_id)},
                    !.w_order = "update",
                    !.pc = IF ~needs_before /\ needs_after THEN "deduct"
                           ELSE IF needs_before /\ ~needs_after THEN "restore"
                           ELSE "commit"]]
    /\ UNCHANGED <<dbvars, ops, now, issued>>

\* deduct_inventory_for_order up to its loop.
deduct_check(t) ==
    /\ sessions[t].pc = "deduct"
    /\ LET sess == sessions[t]
       IN sessions' = [sessions EXCEPT ![t] =
            IF \/ sess.order.items = <<>>
               \/ _order_has_transactions(ledger \o sess.w_ledger,
                                          sess.order_id, "sale")
            THEN [sess EXCEPT !.pc = after_inventory(sess)]
            ELSE [sess EXCEPT !.pc = "adjust", !.todo = sess.order.items,
                              !.tx_type = "sale", !.sign = -1]]
    /\ UNCHANGED <<dbvars, ops, now, issued>>

\* restore_inventory_for_order: the count of the order's sale rows.
restore_check_sale(t) ==
    /\ sessions[t].pc = "restore"
    /\ LET sess == sessions[t]
       IN sessions' = [sessions EXCEPT ![t] =
            IF \/ sess.order.items = <<>>
               \/ ~_order_has_transactions(ledger \o sess.w_ledger,
                                           sess.order_id, "sale")
            THEN [sess EXCEPT !.pc = after_inventory(sess)]
            ELSE [sess EXCEPT !.pc = "restore_return"]]
    /\ UNCHANGED <<dbvars, ops, now, issued>>

\* restore_inventory_for_order: the count of the order's return rows.
restore_check_return(t) ==
    /\ sessions[t].pc = "restore_return"
    /\ LET sess == sessions[t]
       IN sessions' = [sessions EXCEPT ![t] =
            IF _order_has_transactions(ledger \o sess.w_ledger,
                                       sess.order_id, "return")
            THEN [sess EXCEPT !.pc = after_inventory(sess)]
            ELSE [sess EXCEPT !.pc = "adjust", !.todo = sess.order.items,
                              !.tx_type = "return", !.sign = 1]]
    /\ UNCHANGED <<dbvars, ops, now, issued>>

\* The route's get_order before delete_order.
begin_delete_order(t, order_id) ==
    /\ sessions[t].pc = "idle"
    /\ LET sess == [sessions[t] EXCEPT !.op = "delete_order",
                                       !.order_id = order_id]
       IN sessions' = [sessions EXCEPT ![t] =
            IF order_id \notin DOMAIN orders
            THEN rollback(sess, "Order not found")
            ELSE [sess EXCEPT !.pc = "restore", !.loaded = orders[order_id],
                              !.order = orders[order_id]]]
    /\ UNCHANGED <<dbvars, ops, now, issued>>

\* The request body is validated (quantity is not 0) before the handler.
begin_adjustment(t, adjustment_in) ==
    /\ sessions[t].pc = "idle"
    /\ LET sess == [sessions[t] EXCEPT !.op = "create_inventory_adjustment",
                                       !.arg = adjustment_in]
       IN sessions' = [sessions EXCEPT ![t] =
            IF adjustment_in.quantity = 0
            THEN rollback(sess, "Quantity must be non-zero")
            ELSE [sess EXCEPT !.pc = "adjust", !.todo = <<adjustment_in>>,
                              !.tx_type = "adjustment", !.sign = 1]]
    /\ UNCHANGED <<dbvars, ops, now, issued>>

\* One call of adjust_product_stock: SELECT ... FOR UPDATE of the product
\* row, the new stock, the ledger row, session.flush(). The ledger row's
\* order must exist when the row is inserted.
adjust(t) ==
    /\ sessions[t].pc = "adjust"
    /\ Head(sessions[t].todo).product_id # NULL =>
            ~HeldByOther(t, ProductLock(Head(sessions[t].todo).product_id))
    /\ LET sess == sessions[t]
           item == Head(sess.todo)
           s == adjust_item(session_view(sess), item, sess.order_id,
                            sess.tx_type, sess.sign)
           written == IF item.product_id = NULL THEN {} ELSE {item.product_id}
           order_exists == \/ sess.order_id = NULL
                           \/ sess.order_id \in DOMAIN orders
                           \/ sess.w_order = "insert"
       IN sessions' = [sessions EXCEPT ![t] =
            IF s.err # "" THEN rollback(sess, s.err)
            ELSE IF item.product_id # NULL /\ ~order_exists
            THEN rollback(sess, "IntegrityError")
            ELSE [sess EXCEPT
                    !.imap = s.imap,
                    !.w_products = [p \in DOMAIN sess.w_products \cup written
                                        |-> s.products[p].stock],
                    !.w_ledger = SubSeq(s.ledger, Len(ledger) + 1,
                                        Len(s.ledger)),
                    !.locks = @ \cup {ProductLock(p) : p \in written},
                    !.todo = Tail(@),
                    !.pc = IF Tail(sess.todo) = <<>>
                           THEN after_inventory(sess) ELSE "adjust"]]
    /\ UNCHANGED <<dbvars, ops, now, issued>>

\* session.delete(db_order): the DELETE of the order row at the flush of
\* session.commit().
delete_row(t) ==
    /\ sessions[t].pc = "delete"
    /\ ~HeldByOther(t, OrderLock(sessions[t].order_id))
    /\ sessions' = [sessions EXCEPT ![t] =
            [@ EXCEPT !.locks = @ \cup {OrderLock(sessions[t].order_id)},
                      !.w_order = "delete", !.pc = "commit"]]
    /\ UNCHANGED <<dbvars, ops, now, issued>>

commit(t) ==
    /\ sessions[t].pc = "commit"
    /\ LET sess == sessions[t]
           s == session_view(sess)
       IN /\ products' = s.products
          /\ ledger' = IF sess.w_order = "delete"
                       THEN ledger_without_order(s.ledger, sess.order_id)
                       ELSE s.ledger
          /\ issued' = IF sess.w_order = "insert"
                       THEN Append(issued, sess.order_number) ELSE issued
          /\ orders' =
                IF sess.w_order = "insert"
                THEN (sess.order_id :> stored_order(sess.order)) @@ orders
                ELSE IF sess.w_order = "update"
                THEN [orders EXCEPT ![sess.order_id] =
                        flushed_order(@, sess.loaded, sess.order)]
                ELSE IF sess.w_order = "delete"
                THEN Restrict(orders, DOMAIN orders \ {sess.order_id})
                ELSE orders
          /\ sessions' = [sessions EXCEPT ![t] =
                [sess EXCEPT !.pc = "done", !.w_products = <<>>,
                             !.w_ledger = <<>>, !.locks = {}]]
    /\ UNCHANGED <<categories, customers, nextCategory, nextCustomer,
                   nextProduct, nextOrder, ops, now>>

\* The row locks the next statement of a session waits for.
needed_locks(sess) ==
    IF sess.pc \in {"flush", "delete"} THEN {OrderLock(sess.order_id)}
    ELSE IF sess.pc = "insert" THEN {NumberLock(sess.order_number)}
    ELSE IF sess.pc = "adjust" /\ Head(sess.todo).product_id # NULL
    THEN {ProductLock(Head(sess.todo).product_id)}
    ELSE {}

\* Two sessions wait for each other: the datastore aborts one of them.
deadlock_abort(t) ==
    /\ \E u \in Txs \ {t} :
          /\ needed_locks(sessions[t]) \cap sessions[u].locks # {}
          /\ needed_locks(sessions[u]) \cap sessions[t].locks # {}
    /\ sessions' = [sessions EXCEPT ![t] = rollback(@, "DeadlockDetected")]
    /\ UNCHANGED <<dbvars, ops, now, issued>>

NextConc ==
    \E t \in Txs :
        \/ \E order_in \in ConcOrderCreate \cup ConcOrderCreateInvalid :
                begin_create_order(t, order_in)
        \/ load_product(t)
        \/ insert_order(t)
        \/ \E order_in \in ConcOrderUpdate : begin_update_order(t, 1, order_in)
        \/ flush_order(t)
        \/ deduct_check(t)
        \/ restore_check_sale(t)
        \/ restore_check_return(t)
        \/ begin_delete_order(t, 1)
        \/ \E adjustment_in \in InventoryAdjustmentCreate :
                begin_adjustment(t, adjustment_in)
        \/ adjust(t)
        \/ delete_row(t)
        \/ commit(t)
        \/ deadlock_abort(t)

SpecConc == InitConc /\ [][NextConc]_vars

(***************************************************************************)
(* Direct calls of adjust_product_stock, for its contract: the session has *)
(* either not loaded the product or loaded it in the same unit of work.    *)
(***************************************************************************)
AdjustStocks == {0, 2}
\* The products of the catalogue, and the identifiers a call may name: the
\* last one is the identifier of no product.
AdjustProducts == {1, 2}
AdjustProductIds == {1, 2, 3}
AdjustDeltas == {-2, 1}
\* Sale and return rows carry the order, adjustment rows carry none.
AdjustCalls ==
    {[tx_type |-> "sale", order_id |-> 1],
     [tx_type |-> "return", order_id |-> 1],
     [tx_type |-> "adjustment", order_id |-> NULL]}

InitAdjust ==
    /\ categories = [c \in {1} |-> [slug |-> "general"]]
    /\ customers = [c \in {1} |-> [phone |-> "+10000000000"]]
    /\ \E st \in [AdjustProducts -> AdjustStocks] :
          products = [p \in AdjustProducts |->
                        [name |-> "Widget", stock |-> st[p], price |-> 2,
                         category_id |-> NULL]]
    /\ orders = [o \in {1} |->
                    new_order([customer_id |-> 1, status |-> "draft",
                               discount_total |-> 0, tax_total |-> 0,
                               shipping_fee |-> 0],
                              <<order_item(1, [name |-> "Widget", price |-> 2], 1)>>,
                              _generate_order_number(<<>>, utc_now(1)))]
    /\ ledger = <<>>
    /\ nextCategory = 2
    /\ nextCustomer = 2
    /\ nextProduct = 3
    /\ nextOrder = 2
    /\ sessions = [t \in Txs |-> IdleSession]
    /\ ops = 0
    /\ now = 1
    /\ issued = <<_generate_order_number(<<>>, utc_now(1))>>

adjust_stock(product_id, delta, tx_type, order_id, allow_negative, loaded) ==
    /\ Len(ledger) < MaxAdjust
    /\ LET imap == IF loaded /\ product_id \in DOMAIN products
                   THEN [p \in {product_id} |-> products[p]] ELSE <<>>
           s == adjust_product_stock(View(products, ledger, imap), product_id,
                                     delta, tx_type, order_id, allow_negative)
       IN /\ s.err = ""
          /\ products' = s.products
          /\ ledger' = s.ledger
    /\ UNCHANGED <<categories, customers, orders, nextCategory, nextCustomer,
                   nextProduct, nextOrder, sessions, ops,
                   now, issued>>

\* A call of adjust_product_stock that raises: the caller's session keeps
\* the call and the error, and the datastore what the call has left.
adjust_stock_raises(product_id, delta, tx_type, order_id, allow_negative, loaded) ==
    /\ LET imap == IF loaded /\ product_id \in DOMAIN products
                   THEN [p \in {product_id} |-> products[p]] ELSE <<>>
           s == adjust_product_stock(View(products, ledger, imap), product_id,
                                     delta, tx_type, order_id, allow_negative)
       IN /\ s.err # ""
          /\ products' = s.products
          /\ ledger' = s.ledger
          /\ sessions' = [sessions EXCEPT ![1] =
                [@ EXCEPT !.op = "adjust_product_stock",
                          !.arg = [product_id |-> product_id, delta |-> delta,
                                   allow_negative |-> allow_negative],
                          !.err = s.err]]
    /\ UNCHANGED <<categories, customers, orders, nextCategory, nextCustomer,
                   nextProduct, nextOrder, ops, now, issued>>

NextAdjust ==
    \E product_id \in AdjustProductIds, delta \in AdjustDeltas,
       call \in AdjustCalls, allow_negative \in BOOLEAN, loaded \in BOOLEAN :
        \/ adjust_stock(product_id, delta, call.tx_type, call.order_id,
                        allow_negative, loaded)
        \/ adjust_stock_raises(product_id, delta, call.tx_type, call.order_id,
                               allow_negative, loaded)

SpecAdjust == InitAdjust /\ [][NextAdjust]_vars

(***************************************************************************)
(* The order desk: orders are created, updated and deleted one request at  *)
(* a time while the clock runs, over a catalogue of two priced products.   *)
(* The day has either seen no order yet or has seen 9999 of them, the last *)
(* of which is still there.                                                 *)
(***************************************************************************)
DeskProducts ==
    <<[name |-> "Widget", stock |-> 3, price |-> 2, category_id |-> NULL],
      [name |-> "Gadget", stock |-> 3, price |-> 4, category_id |-> NULL]>>

DeskItemLists ==
    {<<[product_id |-> 1, quantity |-> 1], [product_id |-> 2, quantity |-> 2]>>}

\* No discount, or a discount of half a cent.
DeskDiscounts == {0, 1}

DeskOrderCreate ==
    [customer_id : {1}, status : {"draft", "confirmed"}, items : DeskItemLists,
     assigned_to : {NULL}, discount_total : DeskDiscounts,
     tax_total : TaxValues, shipping_fee : ShippingValues]

\* A new status, or a new discount of half a cent.
DeskOrderUpdate ==
    [status : OrderStatus, assigned_to : {UNSET}, discount_total : {UNSET},
     tax_total : {UNSET}, shipping_fee : {UNSET}]
    \cup [status : {UNSET_STR}, assigned_to : {UNSET},
          discount_total : DeskDiscounts \ {0}, tax_total : {UNSET},
          shipping_fee : {UNSET}]

\* The 9999th order of the first day, a draft of one line.
DeskOrder ==
    stored_order(
        new_order([customer_id |-> 1, status |-> "draft", discount_total |-> 0,
                   tax_total |-> 0, shipping_fee |-> 0],
                  <<order_item(1, DeskProducts[1], 1)>>,
                  [prefix |-> strftime(utc_now(1)),
                   suffix |-> ZeroPad(Digits(9999), 4)]))

InitDesk ==
    /\ categories = [c \in {1} |-> [slug |-> "general"]]
    /\ customers = [c \in {1} |-> [phone |-> "+10000000000"]]
    /\ products = DeskProducts
    /\ \/ orders = [o \in {} |-> 0] /\ issued = <<>> /\ nextOrder = 1
       \/ /\ orders = [o \in {1} |-> DeskOrder]
          /\ issued = <<DeskOrder.order_number>>
          /\ nextOrder = 2
    /\ ledger = <<>>
    /\ nextCategory = 2
    /\ nextCustomer = 2
    /\ nextProduct = 3
    /\ sessions = [t \in Txs |-> IdleSession]
    /\ ops = 0
    /\ now = 1

\* Time passes between two requests.
Tick ==
    /\ now < MaxTime
    /\ now' = now + 1
    /\ UNCHANGED <<dbvars, sessions, ops, issued>>

NextDesk ==
    \/ /\ Len(issued) < MaxIssued
       /\ \E order_in \in DeskOrderCreate : Request(create_order(order_in))
    \/ \E o \in DOMAIN orders, order_in \in DeskOrderUpdate :
            Request(update_order(o, order_in))
    \/ \E o \in DOMAIN orders : Request(delete_order(o))
    \/ Tick

SpecDesk == InitDesk /\ [][NextDesk]_vars

(***************************************************************************)
(* The catalogue under the order desk: while orders are created, updated   *)
(* and deleted, products are renamed, repriced and deleted.                 *)
(***************************************************************************)
\* A new name, or a new price.
ShelfProductUpdate ==
    {[name |-> "Renamed", stock |-> UNSET, price |-> UNSET,
      category_id |-> UNSET],
     [name |-> UNSET_STR, stock |-> UNSET, price |-> 6, category_id |-> UNSET]}

NextShelf ==
    \/ /\ nextOrder <= MaxOrders
       /\ \E order_in \in DeskOrderCreate : Request(create_order(order_in))
    \/ \E o \in DOMAIN orders, order_in \in DeskOrderUpdate :
            Request(update_order(o, order_in))
    \/ \E o \in DOMAIN orders : Request(delete_order(o))
    \/ \E p \in DOMAIN DeskProducts, product_in \in ShelfProductUpdate :
            Request(update_product(p, product_in))
    \/ \E p \in DOMAIN DeskProducts : Request(delete_product(p))

SpecShelf == InitDesk /\ [][NextShelf]_vars

(***************************************************************************)
(* The customer directory: customers are created, updated and deleted one  *)
(* request at a time, starting from the seeded customer.                    *)
(***************************************************************************)
NextDirectory ==
    \/ \E phone \in Phones : Request(create_customer(phone))
    \/ \E c \in 1..MaxCustomers, phone \in Phones \cup {UNSET_STR, NULL_STR} :
            Request(update_customer(c, phone))
    \/ \E c \in 1..MaxCustomers : Request(delete_customer(c))

SpecDirectory == Init /\ [][NextDirectory]_vars

(***************************************************************************)
(* Properties                                                               *)
(***************************************************************************)
\* Units of product p on the lines of an item list.
UnitsOn(items, p) ==
    SeqSum([i \in DOMAIN items |->
                IF items[i].product_id = p THEN items[i].quantity ELSE 0])

LinesOn(items, p) == {i \in DOMAIN items : items[i].product_id = p}

Entries(led, order_id, p, tx_type) ==
    {i \in DOMAIN led : /\ led[i].order_id = order_id
                        /\ led[i].product_id = p
                        /\ led[i].type = tx_type}

LedgerSum(led, p) ==
    SeqSum([i \in DOMAIN led |->
                IF led[i].product_id = p THEN led[i].quantity ELSE 0])

OrderLedgerSum(led, order_id, p) ==
    SeqSum([i \in DOMAIN led |->
                IF led[i].product_id = p /\ led[i].order_id = order_id
                THEN led[i].quantity ELSE 0])

\* The ledger rows one pass over the lines writes for every line.
LineEntries(items, order_id, tx_type, sign) ==
    [i \in DOMAIN items |->
        [product_id |-> items[i].product_id, order_id |-> order_id,
         type |-> tx_type, quantity |-> sign * items[i].quantity]]

\* The same, for the lines that still reference a product.
RECURSIVE LiveLineEntries(_, _, _, _)
LiveLineEntries(items, order_id, tx_type, sign) ==
    IF items = <<>> THEN <<>>
    ELSE (IF Head(items).product_id = NULL THEN <<>>
          ELSE <<[product_id |-> Head(items).product_id,
                  order_id |-> order_id, type |-> tx_type,
                  quantity |-> sign * Head(items).quantity]>>)
         \o LiveLineEntries(Tail(items), order_id, tx_type, sign)

StocksUnchanged ==
    \A p \in DOMAIN products \cap DOMAIN products' :
        products'[p].stock = products[p].stock

StocksMoved(items, sign) ==
    \A p \in DOMAIN products :
        /\ p \in DOMAIN products'
        /\ products'[p].stock = products[p].stock + sign * UnitsOn(items, p)

\* C1: every existing order has at most one sale entry and at most one
\* return entry per line item (counted per product of the order's lines).
C1_OneSaleOneReturnPerLine ==
    \A o \in DOMAIN orders : \A p \in DOMAIN products :
        \A tx_type \in {"sale", "return"} :
            Cardinality(Entries(ledger, o, p, tx_type))
                <= Cardinality(LinesOn(orders[o].items, p))

\* An order that is committed again after its inventory was restored: the
\* ledger lookup has kept the second deduction from writing sale rows.
C1_Witness ==
    \E o \in DOMAIN orders :
        /\ orders[o].status \in INVENTORY_DEDUCT_STATUSES
        /\ _order_has_transactions(ledger, o, "sale")
        /\ _order_has_transactions(ledger, o, "return")

\* C2 (as claimed): each product's stock equals the sum of the signed
\* quantities of the ledger entries recorded for it.
C2_StockEqualsLedgerSum ==
    \A p \in DOMAIN products : products[p].stock = LedgerSum(ledger, p)

\* C3 (as claimed): a product's stock changes only inside adjustStock, that
\* is, every step changes each product's stock by exactly the quantities of
\* the ledger entries the step records for that product.
C3_StockChangesOnlyThroughLedger ==
    [][\A p \in DOMAIN products \cap DOMAIN products' :
          products'[p].stock - products[p].stock
            = LedgerSum(ledger', p) - LedgerSum(ledger, p)]_vars

C5_CreateOrderDeduction ==
    [][nextOrder' = nextOrder + 1 =>
         IF orders'[nextOrder].status \in {"confirmed", "paid", "fulfilled"}
         THEN /\ ledger' = ledger \o LineEntries(orders'[nextOrder].items,
                                                 nextOrder, "sale", -1)
              /\ StocksMoved(orders'[nextOrder].items, -1)
         ELSE /\ orders'[nextOrder].status \in {"draft", "cancelled"}
              /\ ledger' = ledger
              /\ StocksMoved(orders'[nextOrder].items, 0)]_vars

\* The first operation created a two-line order as paid.
C5_Witness ==
    /\ ops = 1
    /\ 1 \in DOMAIN orders
    /\ orders[1].status = "paid"
    /\ Len(orders[1].items) = 2
    /\ Len(ledger) = 2
    /\ products[1].stock = -2

\* C6 (as claimed): for an order with recorded sale entries, the first
\* update from a committed to a non-committed status writes one return
\* entry per line with quantity +(line quantity) and raises the stock by
\* it; any later update to a non-committed status writes nothing.
C6_ReturnPerLine ==
    [][\A o \in DOMAIN orders, order_in \in OrderUpdate :
          (/\ order_in.status \in {"draft", "cancelled"}
           /\ _order_has_transactions(ledger, o, "sale")
           /\ update_order(o, order_in))
          => IF /\ orders[o].status \in INVENTORY_DEDUCT_STATUSES
                /\ ~_order_has_transactions(ledger, o, "return")
             THEN /\ ledger' = ledger \o LineEntries(orders[o].items, o,
                                                     "return", 1)
                  /\ StocksMoved(orders[o].items, 1)
             ELSE /\ ledger' = ledger
                  /\ StocksUnchanged]_vars

\* C6 (amended): the return entries are written for the lines whose
\* product still exists.
C6_ReturnPerLiveLine ==
    [][\A o \in DOMAIN orders, order_in \in OrderUpdate :
          (/\ order_in.status \in {"draft", "cancelled"}
           /\ _order_has_transactions(ledger, o, "sale")
           /\ update_order(o, order_in))
          => IF /\ orders[o].status \in INVENTORY_DEDUCT_STATUSES
                /\ ~_order_has_transactions(ledger, o, "return")
             THEN /\ ledger' = ledger \o LiveLineEntries(orders[o].items, o,
                                                         "return", 1)
                  /\ StocksMoved(orders[o].items, 1)
             ELSE /\ ledger' = ledger
                  /\ StocksUnchanged]_vars

\* A restored order (sale and return recorded) sits in a non-committed
\* status, with a line on two units whose return is in the ledger.
C6_Witness ==
    \E o \in DOMAIN orders :
        /\ orders[o].status = "cancelled"
        /\ \E i \in DOMAIN ledger :
              /\ ledger[i].order_id = o
              /\ ledger[i].type = "return"
              /\ ledger[i].quantity = 2
        /\ Cardinality({i \in DOMAIN ledger : ledger[i].order_id = o}) = 2

\* C7: delete_order of an order whose inventory is deducted (sale recorded,
\* no return recorded) raises the stock of each line's product by the line
\* quantity and removes the order with its items; for any other order it
\* changes no stock and writes no ledger entry.
C7_DeleteOrderRestores ==
    [][\A o \in DOMAIN orders :
          delete_order(o)
          => /\ o \notin DOMAIN orders'
             /\ IF /\ _order_has_transactions(ledger, o, "sale")
                   /\ ~_order_has_transactions(ledger, o, "return")
                THEN StocksMoved(orders[o].items, 1)
                ELSE /\ StocksMoved(orders[o].items, 0)
                     /\ Len(ledger') = Len(ledger)]_vars

\* A deducted order has been deleted: its sale and return rows are left in
\* the ledger without order reference and the stock is back at its value.
C7_Witness ==
    /\ ops = 2
    /\ DOMAIN orders = {}
    /\ Len(ledger) = 2
    /\ ledger[1].type = "sale" /\ ledger[1].order_id = NULL
    /\ ledger[2].type = "return" /\ ledger[2].quantity = 2
    /\ products[1].stock = 0

\* C8 (as claimed): an order in a committed status has its inventory
\* deducted: for each line whose product still exists the sale and return
\* entries of the order sum to -(line quantity).
C8_CommittedImpliesDeducted ==
    \A o \in DOMAIN orders :
        orders[o].status \in INVENTORY_DEDUCT_STATUSES
        => \A p \in DOMAIN products :
              OrderLedgerSum(ledger, o, p) = - UnitsOn(orders[o].items, p)

\* C9: when two update_order calls that each move the same non-committed
\* order to a committed status run concurrently, the order ends with
\* exactly one sale entry per line and the stock of each line's product is
\* lowered by the line quantity exactly once.
C9_ConcurrentConfirmDeductsOnce ==
    (/\ \A t \in Txs : /\ sessions[t].pc = "done"
                       /\ sessions[t].op = "update_order"
                       /\ sessions[t].err = ""
                       /\ sessions[t].arg.status \in INVENTORY_DEDUCT_STATUSES
     /\ \E t \in Txs : ~_requires_inventory_deduction(sessions[t].loaded.status))
    => /\ orders[1].status \in INVENTORY_DEDUCT_STATUSES
       /\ \A p \in DOMAIN products :
            /\ Cardinality(Entries(ledger, 1, p, "sale"))
                 = Cardinality(LinesOn(orders[1].items, p))
            /\ Cardinality(Entries(ledger, 1, p, "return")) = 0
            /\ products[p].stock
                 = ConcProducts[p].stock - UnitsOn(orders[1].items, p)

\* Both updates read the order as draft before either had committed, and
\* both have committed.
C9_Witness ==
    /\ \A t \in Txs : /\ sessions[t].pc = "done"
                      /\ sessions[t].op = "update_order"
                      /\ sessions[t].err = ""
                      /\ sessions[t].arg.status \in INVENTORY_DEDUCT_STATUSES
                      /\ sessions[t].loaded.status = "draft"
    /\ sessions[1].arg.status # sessions[2].arg.status
    /\ Len(ledger) = 2

\* C10 (as claimed): for two concurrent operations that each apply a stock
\* delta to the same product, the final stock equals the initial stock plus
\* both deltas: with the committed ledger rows as the deltas, the stock of
\* each product is its first stock plus the sum of its ledger rows.
C10_NoLostUpdate ==
    \A p \in DOMAIN products :
        products[p].stock = ConcProducts[p].stock + LedgerSum(ledger, p)

\* The session t is about to lock a product row that the session u holds.
WaitsForProduct(t, u) ==
    /\ sessions[t].pc = "adjust"
    /\ Head(sessions[t].todo).product_id # NULL
    /\ ProductLock(Head(sessions[t].todo).product_id) \in sessions[u].locks

\* C11 (as claimed): concurrent order operations never deadlock on product
\* row locks: no state is reached in which two operations each wait for a
\* product row lock that the other holds.
C11_NoProductLockDeadlock ==
    \A t \in Txs, u \in Txs :
        t # u => ~(WaitsForProduct(t, u) /\ WaitsForProduct(u, t))

\* The transitions of the lifecycle as the specification draws them.
LifecycleStep(from, to) ==
    \/ <<from, to>> \in {<<"draft", "confirmed">>, <<"confirmed", "paid">>,
                         <<"paid", "fulfilled">>}
    \/ to = "cancelled" /\ from \notin {"fulfilled", "cancelled"}

\* C12 (as claimed): the status of an order changes only along draft ->
\* confirmed -> paid -> fulfilled, or to cancelled from a status that is
\* not terminal; a fulfilled or cancelled order never changes status again.
C12_StatusFollowsLifecycle ==
    [][\A o \in DOMAIN orders \cap DOMAIN orders' :
          orders'[o].status # orders[o].status
          => LifecycleStep(orders[o].status, orders'[o].status)]_vars

\* C13 (as claimed): an order that is in a status with a lifecycle
\* timestamp has that timestamp set, and a lifecycle timestamp that is set
\* keeps its value in every later state of the order.
C13_TimestampsSetOnce ==
    [][\A o \in DOMAIN orders' : \A status \in DOMAIN STATUS_TIMESTAMP_MAP :
          /\ orders'[o].status = status
             => orders'[o][STATUS_TIMESTAMP_MAP[status]] # NULL
          /\ (/\ o \in DOMAIN orders
              /\ orders[o][STATUS_TIMESTAMP_MAP[status]] # NULL)
             => orders'[o][STATUS_TIMESTAMP_MAP[status]]
                  = orders[o][STATUS_TIMESTAMP_MAP[status]]]_vars

\* C14 (as claimed): with one request at a time, every order number
\* create_order allocates has 8 date digits and exactly 4 counter digits,
\* and its counter is greater than the counter of every number allocated
\* before it for the same date.
C14_OrderNumbersIncrease ==
    [][nextOrder' = nextOrder + 1 =>
         LET number == orders'[nextOrder].order_number
         IN /\ Len(number.prefix) = 8
            /\ Len(number.suffix) = 4
            /\ \A i \in DOMAIN issued :
                  issued[i].prefix = number.prefix
                  => ParseInt(issued[i].suffix) < ParseInt(number.suffix)]_vars

\* C15 (as claimed): the number of a deleted order is never allocated to an
\* order created later. The order rows never share a number, so a number
\* is allocated twice only after its first order was deleted.
C15_DeletedNumberNotReused ==
    \A i \in DOMAIN issued, j \in DOMAIN issued :
        i < j => issued[i] # issued[j]

\* C17 (as claimed): create_order stores on each line total_price =
\* unit_price * quantity, and on the order subtotal = the sum of the line
\* totals and grand_total = subtotal - discount_total + tax_total +
\* shipping_fee.
C17_CreateOrderTotals ==
    [][nextOrder' = nextOrder + 1 =>
         LET order == orders'[nextOrder]
         IN /\ \A i \in DOMAIN order.items :
                  order.items[i].total_price
                    = order.items[i].unit_price * order.items[i].quantity
            /\ order.subtotal = items_subtotal(order.items)
            /\ order.grand_total
                 = order.subtotal - order.discount_total + order.tax_total
                   + order.shipping_fee]_vars

\* C18 (as claimed): in every state the grand_total of every order is not
\* negative and equals subtotal - discount_total + tax_total +
\* shipping_fee.
C18_GrandTotalInvariant ==
    \A o \in DOMAIN orders :
        /\ orders[o].grand_total >= 0
        /\ orders[o].grand_total
             = orders[o].subtotal - orders[o].discount_total
               + orders[o].tax_total + orders[o].shipping_fee

\* The session has finished a create_order.
CreateOrderDone(t) ==
    sessions[t].op = "create_order" /\ sessions[t].pc = "done"

\* C16: the order rows never share an order_number; of two concurrent
\* create_order calls that computed the same number at most one commits,
\* and the other has ended with an error, is not run again and has left
\* no order row, no ledger row and no write of its own behind.
C16_OrderNumbersUnique ==
    /\ \A o1 \in DOMAIN orders, o2 \in DOMAIN orders :
          o1 # o2 => orders[o1].order_number # orders[o2].order_number
    /\ \A t \in Txs, u \in Txs :
          (/\ t # u
           /\ CreateOrderDone(t) /\ CreateOrderDone(u)
           /\ sessions[t].order_number # <<>>
           /\ sessions[t].order_number = sessions[u].order_number
           /\ sessions[t].err = "")
          => /\ sessions[u].err # ""
             /\ sessions[u].order_id \notin DOMAIN orders
             /\ \A i \in DOMAIN ledger :
                   ledger[i].order_id \in {NULL} \cup DOMAIN orders
             /\ sessions[u].w_order = ""
             /\ sessions[u].w_products = <<>>
             /\ sessions[u].w_ledger = <<>>

\* Both sessions computed the number 0002 for the day; one has committed
\* its order with its two sale rows, the other was refused by the unique
\* index.
C16_Witness ==
    \E t \in Txs, u \in Txs :
        /\ CreateOrderDone(t) /\ CreateOrderDone(u)
        /\ sessions[t].order_number = sessions[u].order_number
        /\ sessions[t].err = ""
        /\ sessions[t].order_id \in DOMAIN orders
        /\ sessions[t].order.status = "confirmed"
        /\ sessions[u].err = "IntegrityError"
        /\ DOMAIN orders = {1, sessions[t].order_id}

\* C19: a create_order that fails has changed nothing: the step in which
\* it fails changes no order, ledger row or stock, the session ends with
\* none of its writes pending, and no order row or ledger row of the order
\* it was creating exists.
C19_FailedCreateOrderChangesNothing ==
    [][\A t \in Txs :
          (sessions'[t].op = "create_order" /\ sessions'[t].err # "")
          => /\ sessions'[t].pc = "done"
             /\ sessions'[t].w_order = ""
             /\ sessions'[t].w_products = <<>>
             /\ sessions'[t].w_ledger = <<>>
             /\ sessions'[t].locks = {}
             /\ sessions'[t].order_id \notin DOMAIN orders'
             /\ sessions'[t].order_id # NULL
                => \A i \in DOMAIN ledger' :
                      ledger'[i].order_id # sessions'[t].order_id
             /\ sessions[t].err = ""
                => /\ orders' = orders
                   /\ ledger' = ledger
                   /\ products' = products]_vars

\* A create_order has failed while it deducted its second line: its order
\* row and the sale row of its first line were written and rolled back.
C19_Witness ==
    \E t \in Txs :
        /\ CreateOrderDone(t)
        /\ sessions[t].err = "DeadlockDetected"
        /\ sessions[t].order_id # NULL
        /\ Len(sessions[t].todo) = 1
        /\ sessions[t].order_id \notin DOMAIN orders

\* C20: a call of adjust_product_stock that fails changes no stock and no
\* ledger row; it fails with "Product not found" exactly for a product
\* that does not exist and with "Insufficient stock" exactly when negative
\* stock is not allowed and the delta would bring the stock below zero, and
\* no successful call with allow_negative false leaves a negative stock.
C20_FailedAdjustStockChangesNothing ==
    [][/\ sessions'[1] # sessions[1]
          => LET call == sessions'[1].arg
             IN /\ products' = products
                /\ ledger' = ledger
                /\ IF call.product_id \notin DOMAIN products
                   THEN sessions'[1].err = "Product not found"
                   ELSE /\ sessions'[1].err = "Insufficient stock"
                        /\ ~call.allow_negative
                        /\ products[call.product_id].stock + call.delta < 0
       /\ \A product_id \in DOMAIN products, delta \in AdjustDeltas,
             call \in AdjustCalls, loaded \in BOOLEAN :
             adjust_stock(product_id, delta, call.tx_type, call.order_id,
                          FALSE, loaded)
             => products[product_id].stock + delta >= 0]_vars

\* After a first adjustment was applied, a call that would bring the stock
\* of a product below zero has failed.
C20_Witness ==
    /\ Len(ledger) = 1
    /\ sessions[1].err = "Insufficient stock"
    /\ sessions[1].arg.delta < 0
    /\ products[sessions[1].arg.product_id].stock = 1

\* C21 (as claimed): only a manual adjustment with a positive quantity is
\* applied: every adjustment row of the ledger has a positive quantity.
C21_AdjustmentsArePositive ==
    \A i \in DOMAIN ledger :
        ledger[i].type = "adjustment" => ledger[i].quantity > 0

\* C22 (as claimed): the ledger is append-only: every step keeps the rows
\* the ledger has, with their product, order reference, type and quantity,
\* and at most adds rows after them.
C22_LedgerAppendOnly ==
    [][/\ Len(ledger') >= Len(ledger)
       /\ SubSeq(ledger', 1, Len(ledger)) = ledger]_vars

\* C23 (as claimed): in every state the stock of every product is a
\* non-negative integer.
C23_StockNonNegative ==
    \A p \in DOMAIN products :
        products[p].stock \in Int /\ products[p].stock >= 0

PhonesDistinct(custs) ==
    \A c1 \in DOMAIN custs, c2 \in DOMAIN custs :
        c1 # c2 => custs[c1].phone # custs[c2].phone

PhoneOfAnother(custs, c, phone) ==
    \E d \in DOMAIN custs \ {c} : custs[d].phone = phone

\* C24: no two customers share a phone number, before and after every
\* request. create_customer with a phone some customer has, and
\* update_customer to a phone another customer has, answer "Phone number
\* already registered" and change no customer; otherwise the customer is
\* created with, or changed to, that phone, and an update_customer that
\* keeps the customer's own phone answers normally.
C24_PhonesUnique ==
    [][/\ PhonesDistinct(customers) /\ PhonesDistinct(customers')
       /\ \A phone \in Phones :
             create_customer(phone)
             => IF PhoneOfAnother(customers, NULL, phone)
                THEN /\ sessions'[1].err = "Phone number already registered"
                     /\ customers' = customers
                ELSE /\ sessions'[1].err = ""
                     /\ customers'
                          = (nextCustomer :> [phone |-> phone]) @@ customers
       /\ \A c \in DOMAIN customers, phone \in Phones :
             update_customer(c, phone)
             => IF PhoneOfAnother(customers, c, phone)
                THEN /\ sessions'[1].err = "Phone number already registered"
                     /\ customers' = customers
                ELSE /\ sessions'[1].err = ""
                     /\ customers' = [customers EXCEPT ![c].phone = phone]]_vars

\* Two customers exist and the last request, an update of one of them to
\* the phone of the other, was answered with the conflict.
C24_Witness ==
    /\ Cardinality(DOMAIN customers) = 2
    /\ sessions[1].op = "update_customer"
    /\ sessions[1].err = "Phone number already registered"
    /\ \E c \in DOMAIN customers :
          /\ c # sessions[1].arg[1]
          /\ customers[c].phone = sessions[1].arg[2]

\* C25: an update_order that supplies no status, or whose previous and new
\* status are both committed (confirmed, paid, fulfilled) or both not
\* committed (draft, cancelled), leaves every product and the ledger as
\* they were. update_order is the one handler that serves a request and
\* leaves the set of orders as it is; the order it has changed, if any,
\* shows the previous and the new status.
C25_NoInventoryWithoutTransition ==
    [][(/\ ops' = ops + 1
        /\ DOMAIN orders' = DOMAIN orders
        /\ \A o \in DOMAIN orders :
              orders'[o] # orders[o]
              => (orders[o].status \in {"confirmed", "paid", "fulfilled"})
                   = (orders'[o].status \in {"confirmed", "paid", "fulfilled"}))
       => /\ products' = products
          /\ ledger' = ledger]_vars

\* An order whose inventory was deducted once has been moved from one
\* committed status to another: the ledger holds its two sale rows only.
C25_Witness ==
    \E o \in DOMAIN orders :
        /\ orders[o].status = "paid"
        /\ orders[o].confirmed_at # NULL
        /\ orders[o].paid_at # NULL
        /\ Len(ledger) = 2
        /\ \A i \in DOMAIN ledger :
              ledger[i].type = "sale" /\ ledger[i].order_id = o

\* The session has run a delete_order, or an update_order to a status that
\* is not committed, on an order it has read in a committed status.
RestoresOrder(t) ==
    /\ sessions[t].pc = "done"
    /\ \/ sessions[t].op = "delete_order"
       \/ /\ sessions[t].op = "update_order"
          /\ sessions[t].arg.status \in {"draft", "cancelled"}
    /\ sessions[t].loaded # <<>>
    /\ sessions[t].loaded.status \in INVENTORY_DEDUCT_STATUSES

\* C26 (as claimed): when a delete_order and an update_order to a status
\* that is not committed, or two such operations, have run concurrently on
\* the same deducted order, the ledger holds at most one return row per
\* line and the stock of each line's product is back at its value before
\* the sale, once an operation has succeeded, and never above it.
C26_ConcurrentRestoreOnce ==
    (\A t \in Txs : RestoresOrder(t))
    => \A p \in DOMAIN products :
          /\ Cardinality({i \in DOMAIN ledger : /\ ledger[i].type = "return"
                                                /\ ledger[i].product_id = p})
               <= Cardinality(LinesOn(ConcOrder("confirmed").items, p))
          /\ products[p].stock <= ConcProducts[p].stock
          /\ (\E t \in Txs : sessions[t].err = "")
             => products[p].stock = ConcProducts[p].stock

\* The snapshot a line keeps of its product.
LineSnapshot(item) ==
    [product_name |-> item.product_name, quantity |-> item.quantity,
     unit_price |-> item.unit_price, total_price |-> item.total_price]

\* C27: no step changes the product_name, unit_price or total_price of a
\* line of an order that stays, nor the order's subtotal or order number,
\* whether the step renames or reprices a product or updates the order; and
\* update_order stores as grand_total the sum of the persisted line totals
\* less the discount plus tax and shipping fee, rounded to the cent.
C27_LinesKeepSnapshot ==
    [][/\ \A o \in DOMAIN orders \cap DOMAIN orders' :
             /\ orders'[o].subtotal = orders[o].subtotal
             /\ orders'[o].order_number = orders[o].order_number
             /\ DOMAIN orders'[o].items = DOMAIN orders[o].items
             /\ \A i \in DOMAIN orders[o].items :
                   LineSnapshot(orders'[o].items[i])
                     = LineSnapshot(orders[o].items[i])
       /\ \A o \in DOMAIN orders, order_in \in DeskOrderUpdate :
             update_order(o, order_in)
             => orders'[o].grand_total
                  = numeric_2(items_subtotal(orders[o].items)
                              - (IF order_in.discount_total = UNSET
                                 THEN orders[o].discount_total
                                 ELSE order_in.discount_total)
                              + orders[o].tax_total
                              + orders[o].shipping_fee)]_vars

\* An order has been moved to paid while the product of its first line
\* carries another name and another price than the line.
C27_Witness ==
    \E o \in DOMAIN orders :
        /\ orders[o].status = "paid"
        /\ orders[o].paid_at # NULL
        /\ orders[o].items[1].product_id \in DOMAIN products
        /\ products[orders[o].items[1].product_id].name
             # orders[o].items[1].product_name
        /\ products[orders[o].items[1].product_id].price
             # orders[o].items[1].unit_price
        /\ orders[o].grand_total = orders[o].subtotal

\* The order has a line whose product was deleted.
HasOrphanLine(order) ==
    \E i \in DOMAIN order.items : order.items[i].product_id = NULL

\* C28: delete_product removes no order and no line: every line keeps its
\* product_name, quantity, unit_price and total_price, a line of the
\* deleted product has a null product reference afterwards, and subtotal
\* and grand_total of every order stay. An order with such a line can
\* still be moved to every status and deleted, and these steps move no
\* stock and write no ledger row for that line.
C28_DeleteProductKeepsLines ==
    /\ [](\A o \in DOMAIN orders :
             HasOrphanLine(orders[o])
             => /\ ENABLED delete_order(o)
                /\ \A order_in \in DeskOrderUpdate :
                      ENABLED update_order(o, order_in))
    /\ [][/\ \A p \in DOMAIN DeskProducts :
              delete_product(p)
              => /\ DOMAIN orders' = DOMAIN orders
                 /\ \A o \in DOMAIN orders :
                       /\ orders'[o].subtotal = orders[o].subtotal
                       /\ orders'[o].grand_total = orders[o].grand_total
                       /\ DOMAIN orders'[o].items = DOMAIN orders[o].items
                       /\ \A i \in DOMAIN orders[o].items :
                             /\ LineSnapshot(orders'[o].items[i])
                                  = LineSnapshot(orders[o].items[i])
                             /\ orders'[o].items[i].product_id
                                  = IF orders[o].items[i].product_id = p
                                    THEN NULL
                                    ELSE orders[o].items[i].product_id
        /\ \A o \in DOMAIN orders :
              (/\ HasOrphanLine(orders[o])
               /\ DOMAIN products' = DOMAIN products
               /\ o \notin DOMAIN orders' \/ orders'[o] # orders[o])
              => /\ \A i \in DOMAIN ledger' :
                       ledger'[i].product_id \in DOMAIN products
                 /\ \E sign \in {-1, 0, 1} :
                       StocksMoved(orders[o].items, sign)]_vars

\* A product was deleted under a confirmed order of two lines: the line has
\* lost its product reference and kept its name and prices, and the sale
\* row of the other line is still in the ledger.
C28_Witness ==
    \E o \in DOMAIN orders :
        /\ orders[o].status = "confirmed"
        /\ Len(orders[o].items) = 2
        /\ orders[o].items[1].product_id = NULL
        /\ orders[o].items[1].product_name = "Widget"
        /\ orders[o].items[1].total_price = 2
        /\ orders[o].items[2].product_id # NULL
        /\ \E i \in DOMAIN ledger :
              ledger[i].order_id = o /\ ledger[i].type = "sale"

\* C29 (as claimed): among the order numbers of the day the greatest in
\* the order of strings has the greatest counter, so the counter of the
\* number the allocator would give next is greater than the counter of
\* every order number of the day.
C29_NextCounterIsGreatest ==
    LET today == strftime(utc_now(now))
        next_number == _generate_order_number(orders, utc_now(now))
    IN \A o \in DOMAIN orders :
          orders[o].order_number.prefix = today
          => /\ \A x \in DOMAIN orders :
                   (/\ orders[x].order_number.prefix = today
                    /\ StrLess(orders[o].order_number.suffix,
                               orders[x].order_number.suffix))
                   => ParseInt(orders[o].order_number.suffix)
                        < ParseInt(orders[x].order_number.suffix)
             /\ ParseInt(orders[o].order_number.suffix)
                  < ParseInt(next_number.suffix)

\* C30 (as claimed): in every state an order whose status is confirmed,
\* paid, fulfilled or cancelled has the timestamp of that status set, also
\* when it was created in that status.
C30_StatusHasTimestamp ==
    \A o \in DOMAIN orders :
        orders[o].status \in DOMAIN STATUS_TIMESTAMP_MAP
        => orders[o][STATUS_TIMESTAMP_MAP[orders[o].status]] # NULL

====
